---- MODULE Spec2Model ----
(***************************************************************************)
(* The Heat stack reconcilers of cloud/openstack: os_stack.py and          *)
(* os_orchestration_stack.py.  One invocation of main() is a run of the    *)
(* statements of the try block, one action per statement; the remote Heat  *)
(* service is the listing `remote`.                                        *)
(*                                                                         *)
(* Python is modelled as it evaluates: module.params is a dictionary from  *)
(* which pop() removes the key, a subscript of a missing key raises        *)
(* KeyError, a name that is neither a local nor a global of the file       *)
(* raises NameError, ','.join(None) raises TypeError, and every Exception  *)
(* raised inside the try block reaches the except clause, which calls      *)
(* fail_json.  exit_json and fail_json end the process (SystemExit is not  *)
(* an Exception).                                                          *)
(*                                                                         *)
(* Both files carry a stray closing parenthesis (os_stack.py:126 and :192, *)
(* os_orchestration_stack.py:128); the model is of the statements with     *)
(* those parentheses dropped, since otherwise neither file compiles.       *)
(*                                                                         *)
(* What the statements reach.  main() pops 'name' off module.params and    *)
(* the loop condition subscripts module.params['name'], so the condition   *)
(* raises on the first listed stack and found_stack is never bound to a    *)
(* stack; the create call evaluates stack_name, which no statement binds;  *)
(* os_orchestration_stack calls _set_tenant_id, which the file does not    *)
(* define.  Hence control never reaches the statements after the create    *)
(* call (get, wait loop) nor the statements of a found stack (template     *)
(* fetch, compare, update, wait loop): the positions "get" and "compare"   *)
(* are where they would start, and no behaviour of Spec arrives there.     *)
(* The delete branch is part of Dispatch.                                  *)
(*                                                                         *)
(* Specifications:                                                         *)
(*   Spec         invocations of the two stack modules from main()'s start *)
(*   WaitSpec     the statements after a create or update call that has    *)
(*                returned (first fetch, wait loop, exit_json), started in *)
(*                the state such a call leaves; FairWaitSpec adds that the *)
(*                process keeps running                                    *)
(*   PairSpec     two invocations of a stack module with state=present for *)
(*                the same name, their remote calls interleaved            *)
(*   GroupSpec    invocations of os_group.py                               *)
(*   ServiceSpec  invocations of os_keystone_service.py                    *)
(***************************************************************************)
EXTENDS Integers, Sequences, FiniteSets, TLC

\* ---------------------------------------------------------------- bounds
MaxStacks == 2      \* longest remote listing
MaxRuns == 2        \* invocations in succession
MaxTimeout == 2     \* largest timeout argument
MaxPollTimeout == 5 \* largest timeout argument of a polled invocation

\* ------------------------------------------------------ values and inputs
NoneVal == "None"

Files == {"os_stack", "os_orchestration_stack"}

\* desired names and names the remote may hold
DesiredNames == {"test", "Test"}
RemoteNames == {"test", "Test", "other"}

\* str.lower()
Lower(s) ==
    CASE s = "Test" -> "test"
      [] s = "TEST" -> "test"
      [] s = "Other" -> "other"
      [] OTHER -> s

\* template texts (desired) and parsed templates (as the remote applied them)
TemplateTexts == {"a: 1", "a:  1", "a: 2"}
ParsedTemplates == {"{a:1}", "{a:2}"}

\* yaml.load followed by json.dumps: the parsed document of a text
yaml_load(text) ==
    CASE text = "a: 1" -> "{a:1}"
      [] text = "a:  1" -> "{a:1}"
      [] text = "a: 2" -> "{a:2}"
      [] OTHER -> "{}"

\* the tags argument: None (the default) or a list of strings
TagsIn == {[isNone |-> TRUE, items |-> <<>>],
           [isNone |-> FALSE, items |-> <<"t1", "t2">>]}

States == {"present", "absent"}

StackRec == [id : 1..MaxStacks, stack_name : RemoteNames,
             stack_status : {"CREATE_COMPLETE"}, template : ParsedTemplates]

\* listings the remote can hold: identifiers by position, names unique
Listings ==
    {l \in UNION {[1..n -> StackRec] : n \in 0..MaxStacks} :
        /\ \A i \in DOMAIN l : l[i].id = i
        /\ \A i, j \in DOMAIN l : l[i].stack_name = l[j].stack_name => i = j}

ArgsIn == [name : DesiredNames, state : States, template : TemplateTexts,
           tags : TagsIn, wait : BOOLEAN, timeout : {0, MaxTimeout}]

VARIABLES
    file,       \* which module file runs
    args,       \* the task's arguments, the same for every invocation
    remote,     \* the remote's stacks, in listing order
    before,     \* the remote's stacks when the current invocation started
    pc,         \* position of the invocation in main()
    params,     \* module.params
    locals,     \* local variables of main() that are bound
    found_stack,\* <<>> for None, else <<stack>>
    idx,        \* position of the for loop in stacks
    exc,        \* the exception on its way to the except clause
    calls,      \* remote calls issued by the current invocation
    result,     \* what exit_json / fail_json reported
    history,    \* results of the finished invocations
    now,        \* time.time()
    other       \* <<>>, or <<c>> for a second invocation that is in progress
                \* while this one runs, c being its position and state

vars == <<file, args, remote, before, pc, params, locals, found_stack, idx, exc,
          calls, result, history, now, other>>

NoExc == [type |-> NoneVal, message |-> ""]
NoResult == [failed |-> FALSE, changed |-> FALSE, msg |-> "", info |-> NoneVal,
             calls |-> <<>>, before |-> <<>>]

\* names bound at module level of each file (imports and defs)
Globals(f) ==
    IF f = "os_stack"
    THEN {"json", "os", "time", "shade", "meta", "HAS_SHADE",
          "_json_helper", "main"}
    ELSE {"json", "os", "time", "shade", "meta", "yaml", "HAVE_DEPS",
          "_get_heat_client", "_json_helper", "main"}

\* a name evaluates iff it is a bound local or a global of the file
Bound(n) == n \in DOMAIN locals \/ n \in Globals(file)

NameError(n) ==
    [type |-> "NameError",
     message |-> "global name '" \o n \o "' is not defined"]
KeyError(k) == [type |-> "KeyError", message |-> k]
TypeError == [type |-> "TypeError", message |-> "can only join an iterable"]
CallError(c) == [type |-> "OpenStackCloudException", message |-> c \o " failed"]

\* dict.pop(key): the dictionary without the key
Pop(d, k) == [x \in DOMAIN d \ {k} |-> d[x]]

\* bind a local
Bind(l, n, v) == [x \in DOMAIN l \cup {n} |-> IF x = n THEN v ELSE l[x]]

\* AnsibleModule(argument_spec): module.params of a fresh invocation
InitialParams(f, a) ==
    IF f = "os_stack"
    THEN [k \in {"name", "template_file", "template_url", "files",
                 "parameters", "tags", "wait", "timeout", "state"} |->
            CASE k = "name" -> [v |-> a.name]
              [] k = "template_file" -> [v |-> a.template]
              [] k = "tags" -> [v |-> a.tags]
              [] k = "wait" -> [v |-> a.wait]
              [] k = "timeout" -> [v |-> a.timeout]
              [] k = "state" -> [v |-> a.state]
              [] OTHER -> [v |-> NoneVal]]
    ELSE [k \in {"name", "template", "parameters", "tags", "wait",
                 "timeout", "state"} |->
            CASE k = "name" -> [v |-> a.name]
              [] k = "template" -> [v |-> a.template]
              [] k = "tags" -> [v |-> a.tags]
              [] k = "wait" -> [v |-> a.wait]
              [] k = "timeout" -> [v |-> a.timeout]
              [] k = "state" -> [v |-> a.state]
              [] OTHER -> [v |-> NoneVal]]

Init ==
    /\ file \in Files
    /\ args \in ArgsIn
    /\ remote \in Listings
    /\ before = remote
    /\ pc = "idle"
    /\ params = InitialParams(file, args)
    /\ locals = <<>>
    /\ found_stack = <<>>
    /\ idx = 0
    /\ exc = NoExc
    /\ calls = <<>>
    /\ result = NoResult
    /\ history = <<>>
    /\ now = 0
    /\ other = <<>>

\* ------------------------------------------------------------ statements

\* raise e inside the try block
Raise(e) ==
    /\ pc' = "except"
    /\ exc' = e

\* module.exit_json(changed=c): the process ends; cs are the calls it issued
Exit(c, cs) ==
    /\ pc' = "done"
    /\ result' = [failed |-> FALSE, changed |-> c, msg |-> "", info |-> NoneVal,
                  calls |-> cs, before |-> before]
    /\ history' = Append(history, result')

\* a new process runs main(): AnsibleModule parses the arguments
Invoke ==
    /\ pc \in {"idle", "done"}
    /\ Len(history) < MaxRuns
    /\ pc' = "pop"
    /\ params' = InitialParams(file, args)
    /\ locals' = <<>>
    /\ found_stack' = <<>>
    /\ idx' = 0
    /\ exc' = NoExc
    /\ calls' = <<>>
    /\ result' = NoResult
    /\ before' = remote
    /\ UNCHANGED <<other, now, file, args, remote, history>>

\* ','.join(list)
RECURSIVE Join(_)
Join(items) ==
    IF items = <<>> THEN ""
    ELSE IF Len(items) = 1 THEN items[1]
    ELSE items[1] \o "," \o Join(Tail(items))

\* the keys main() pops off module.params, in order
PoppedKeys(f) ==
    IF f = "os_stack"
    THEN <<"name", "parameters", "tags", "template_file", "template_url",
           "files", "state">>
    ELSE <<"name", "parameters", "tags", "template", "state">>

RECURSIVE PopAll(_, _)
PopAll(d, ks) == IF ks = <<>> THEN d ELSE PopAll(Pop(d, Head(ks)), Tail(ks))

\* the same, with the name popped into stack_name, the local the create
\* call reads
LocalOfStackName(f, k) ==
    IF k = "name" THEN "stack_name"
    ELSE IF f # "os_stack" /\ k = "template" THEN "template_path" ELSE k

\* the local each popped key is bound to
LocalOf(f, k) == IF f # "os_stack" /\ k = "template" THEN "template_path" ELSE k

RECURSIVE BindAll(_, _, _, _)
BindAll(l, f, d, ks) ==
    IF ks = <<>> THEN l
    ELSE BindAll(Bind(l, LocalOf(f, Head(ks)), d[Head(ks)]), f, d, Tail(ks))

\* name = module.params.pop('name') ... state = module.params.pop('state')
\* os_stack joins the tags list, which raises on the default None
PopParams ==
    /\ pc = "pop"
    /\ IF file = "os_stack" /\ params["tags"].v.isNone
       THEN /\ params' = PopAll(params, <<"name", "parameters", "tags">>)
            /\ locals' = BindAll(locals, file, params, <<"name", "parameters">>)
            /\ Raise(TypeError)
       ELSE /\ params' = PopAll(params, PoppedKeys(file))
            /\ locals' =
                 IF file = "os_stack"
                 THEN Bind(BindAll(locals, file, params, PoppedKeys(file)),
                           "tags", [v |-> Join(params["tags"].v.items)])
                 ELSE BindAll(locals, file, params, PoppedKeys(file))
            /\ pc' = "cloud"
            /\ exc' = exc
    /\ UNCHANGED <<other, now, file, args, before, remote, found_stack, idx, calls, result, history>>

\* a call log in which every call is an update of the stack
CallAsUpdate(op, id, raised) == [op |-> "update", id |-> id, raised |-> raised]

\* a call of the SDK: it returns or raises
Call(op, id, raised) == [op |-> op, id |-> id, raised |-> raised]

\* a handler that swallows the error: control goes on after a raising call
AfterCallSwallowed(raised, next) == next

\* where control goes after a call that returned or raised
AfterCall(raised, next) == IF raised THEN "except" ELSE next

\* cloud = shade.openstack_cloud(**cloud_params); heat = cloud.heat_client
OpenCloud ==
    /\ pc = "cloud"
    /\ \E raised \in BOOLEAN :
        /\ calls' = Append(calls, Call("openstack_cloud", 0, raised))
        /\ pc' = AfterCall(raised,
                   IF file = "os_stack" THEN "list" ELSE "set_tenant_id")
        /\ exc' = IF raised THEN CallError("openstack_cloud") ELSE exc
        /\ locals' = IF raised THEN locals
                     ELSE Bind(Bind(Bind(locals, "cloud_params", [v |-> NoneVal]),
                                    "cloud", [v |-> NoneVal]),
                               "heat", [v |-> NoneVal])
    /\ UNCHANGED <<other, now, file, args, before, remote, params, found_stack, idx, result, history>>

\* _set_tenant_id(module)   (os_orchestration_stack only)
SetTenantId ==
    /\ pc = "set_tenant_id"
    /\ IF Bound("_set_tenant_id")
       THEN pc' = "list" /\ exc' = exc
       ELSE Raise(NameError("_set_tenant_id"))
    /\ UNCHANGED <<other, now, file, args, before, remote, params, locals, found_stack, idx,
                   calls, result, history>>

\* found_stack = None; stacks = heat.stacks.list()
ListStacks ==
    /\ pc = "list"
    /\ \E raised \in BOOLEAN :
        /\ calls' = Append(calls, Call("list", 0, raised))
        /\ pc' = AfterCall(raised, "for")
        /\ exc' = IF raised THEN CallError("list") ELSE exc
        /\ locals' = IF raised THEN Bind(locals, "found_stack", [v |-> <<>>])
                     ELSE Bind(Bind(locals, "found_stack", [v |-> <<>>]),
                               "stacks", [v |-> remote])
    /\ found_stack' = <<>>
    /\ idx' = 1
    /\ UNCHANGED <<other, now, file, args, before, remote, params, result, history>>

\* stack.stack_name.lower() == module.params['name'].lower()
\* the value of the condition, or the exception its evaluation raises
NameMatches(stack, d) ==
    IF "name" \in DOMAIN d
    THEN [raised |-> FALSE, exc |-> NoExc,
          value |-> Lower(stack.stack_name) = Lower(d["name"].v)]
    ELSE [raised |-> TRUE, exc |-> KeyError("name"), value |-> FALSE]

\* for stack in stacks: if <names match>: found_stack = stack; break
ForStack ==
    /\ pc = "for"
    /\ LET stacks == locals["stacks"].v IN
       IF idx > Len(stacks)
       THEN /\ pc' = "dispatch"
            /\ UNCHANGED <<exc, found_stack, idx, locals>>
       ELSE LET m == NameMatches(stacks[idx], params) IN
            IF m.raised
            THEN /\ Raise(m.exc)
                 /\ locals' = Bind(locals, "stack", [v |-> stacks[idx]])
                 /\ UNCHANGED <<found_stack, idx>>
            ELSE IF m.value
            THEN /\ found_stack' = <<stacks[idx]>>
                 /\ locals' = Bind(Bind(locals, "stack", [v |-> stacks[idx]]),
                                   "found_stack", [v |-> <<stacks[idx]>>])
                 /\ pc' = "dispatch"
                 /\ UNCHANGED <<exc, idx>>
            ELSE /\ idx' = idx + 1
                 /\ locals' = Bind(locals, "stack", [v |-> stacks[idx]])
                 /\ UNCHANGED <<pc, exc, found_stack>>
    /\ UNCHANGED <<other, now, file, args, before, remote, params, calls, result, history>>

\* the listing without the stack of that identifier
Without(l, id) == SelectSeq(l, LAMBDA s : s.id # id)

\* module.fail_json(msg=m): the process ends with a fatal error
Fail(m) ==
    /\ pc' = "done"
    /\ result' = [failed |-> TRUE, changed |-> FALSE, msg |-> m, info |-> NoneVal,
                  calls |-> calls, before |-> before]
    /\ history' = Append(history, result')

\* the branches after the loop (found_stack is a stack only if the loop's
\* condition evaluated to true):
\*   if state == 'present' [and] not found_stack   -> create
\*   if [state == 'present' and] found_stack       -> compare and update
\*   if state != 'present' and found_stack: heat.stacks.delete(...);
\*                                          module.exit_json(changed=True)
\*   module.exit_json(changed=False)
Dispatch ==
    /\ pc = "dispatch"
    /\ IF locals["state"].v = "present" /\ found_stack = <<>>
       THEN /\ pc' = IF file = "os_stack" THEN "get_template_contents"
                     ELSE "create"
            /\ UNCHANGED <<remote, exc, calls, result, history>>
       ELSE IF locals["state"].v = "present"
       THEN /\ pc' = "compare"
            /\ UNCHANGED <<remote, exc, calls, result, history>>
       ELSE IF found_stack # <<>>
       THEN \E raised \in BOOLEAN :
              /\ calls' = Append(calls, Call("delete", found_stack[1].id, raised))
              /\ IF raised
                 THEN /\ Raise(CallError("delete"))
                      /\ UNCHANGED <<remote, result, history>>
                 ELSE /\ remote' = Without(remote, found_stack[1].id)
                      /\ exc' = exc
                      /\ Exit(TRUE, Append(calls, Call("delete", found_stack[1].id, raised)))
       ELSE /\ Exit(FALSE, calls)
            /\ UNCHANGED <<remote, exc, calls>>
    /\ UNCHANGED <<other, now, file, args, before, params, locals, found_stack, idx>>

\* tpl_files, template = cloud.get_template_contents(...)   (os_stack only)
GetTemplateContents ==
    /\ pc = "get_template_contents"
    /\ \E raised \in BOOLEAN :
        /\ calls' = Append(calls, Call("get_template_contents", 0, raised))
        /\ pc' = AfterCall(raised, "create")
        /\ exc' = IF raised THEN CallError("get_template_contents") ELSE exc
        /\ locals' = IF raised THEN locals
                     ELSE Bind(Bind(locals, "tpl_files", [v |-> NoneVal]),
                               "template", locals["template_file"])
    /\ UNCHANGED <<other, now, file, args, before, remote, params, found_stack, idx, result, history>>

\* the names the create call's arguments evaluate, in order
CreateArgNames(f) ==
    IF f = "os_stack"
    THEN <<"heat", "stack_name", "template", "tpl_files", "parameters", "tags">>
    ELSE <<"heat", "stack_name", "template_path", "parameters", "tags">>

\* the first name of the list that is not bound, <<>> if all are
RECURSIVE FirstUnbound(_)
FirstUnbound(ns) ==
    IF ns = <<>> THEN <<>>
    ELSE IF Bound(Head(ns)) THEN FirstUnbound(Tail(ns))
    ELSE <<Head(ns)>>

\* _stack = heat.stacks.create(stack_name=stack_name, template=..., ...)
CreateStack ==
    /\ pc = "create"
    /\ LET u == FirstUnbound(CreateArgNames(file)) IN
       IF u # <<>>
       THEN /\ Raise(NameError(u[1]))
            /\ UNCHANGED <<remote, calls, locals>>
       ELSE \E raised \in BOOLEAN :
              /\ calls' = Append(calls, Call("create", Len(remote) + 1, raised))
              /\ pc' = AfterCall(raised, "get")
              /\ exc' = IF raised THEN CallError("create") ELSE exc
              /\ remote' = IF raised THEN remote
                           ELSE Append(remote,
                                  [id |-> Len(remote) + 1,
                                   stack_name |-> locals["stack_name"].v,
                                   stack_status |-> "CREATE_IN_PROGRESS",
                                   template |-> yaml_load(args.template)])
              /\ locals' = IF raised THEN locals
                           ELSE Bind(locals, "_stack", [v |-> Len(remote) + 1])
    /\ UNCHANGED <<other, now, file, args, before, params, found_stack, idx, result, history>>

\* except Exception, e: module.fail_json(msg = "Heat error: %s" % e.message)
ExceptHandler ==
    /\ pc = "except"
    /\ Fail("Heat error: " \o exc.message)
    /\ UNCHANGED <<other, now, file, args, before, remote, params, locals, found_stack, idx, exc,
                   calls>>

Next ==
    \/ Invoke
    \/ PopParams
    \/ OpenCloud
    \/ SetTenantId
    \/ ListStacks
    \/ ForStack
    \/ Dispatch
    \/ GetTemplateContents
    \/ CreateStack
    \/ ExceptHandler

Spec == Init /\ [][Next]_vars

\* ------------------------------------------- two invocations interleaved
\* Two processes run main() against the same remote, for the same task.
\* Each is a one-shot process with its own module.params and locals; the
\* remote is all they share.  The variables pc .. before are those of the
\* process that takes the next step, `other` holds the process that waits.

\* position and state of the process that is running
Context ==
    [pc |-> pc, params |-> params, locals |-> locals,
     found_stack |-> found_stack, idx |-> idx, exc |-> exc, calls |-> calls,
     result |-> result, before |-> before]

\* a process that has not started main()
Idle(f, a, l) ==
    [pc |-> "idle", params |-> InitialParams(f, a), locals |-> <<>>,
     found_stack |-> <<>>, idx |-> 0, exc |-> NoExc, calls |-> <<>>,
     result |-> NoResult, before |-> l]

\* two tasks with state=present for the same name, neither started; wait
\* and timeout, which no statement up to the create call reads, are the
\* task's wait=true and the largest timeout
PairInit ==
    /\ file \in Files
    /\ args \in {a \in ArgsIn :
                   a.state = "present" /\ a.wait /\ a.timeout = MaxTimeout}
    /\ remote \in Listings
    /\ before = remote
    /\ pc = "idle"
    /\ params = InitialParams(file, args)
    /\ locals = <<>>
    /\ found_stack = <<>>
    /\ idx = 0
    /\ exc = NoExc
    /\ calls = <<>>
    /\ result = NoResult
    /\ history = <<>>
    /\ now = 0
    /\ other = <<Idle(file, args, remote)>>

\* positions whose statement issues no remote call when state is present:
\* popping the parameters, _set_tenant_id, the loop over the listing, the
\* branch on state and found_stack, the except clause
LocalPositions == {"pop", "set_tenant_id", "for", "dispatch", "except"}

\* the other process runs: the processes interleave at the remote calls, a
\* process is overtaken only where its next statement is a remote call (or
\* before it starts, or once it has ended)
Switch ==
    /\ other # <<>>
    /\ pc \notin LocalPositions
    /\ other' = <<Context>>
    /\ pc' = other[1].pc
    /\ params' = other[1].params
    /\ locals' = other[1].locals
    /\ found_stack' = other[1].found_stack
    /\ idx' = other[1].idx
    /\ exc' = other[1].exc
    /\ calls' = other[1].calls
    /\ result' = other[1].result
    /\ before' = other[1].before
    /\ UNCHANGED <<now, file, args, remote, history>>

PairNext == Next \/ Switch

PairSpec == PairInit /\ [][PairNext]_vars

\* ------------------------------------------------- the wait after a call
\* The statements that follow a create or update call that returned:
\* os_stack.py:174-185 and :208-220, os_orchestration_stack.py:163-174 and
\* :196-208.  The two tails differ in the status they wait on and in the
\* identifier they fetch; which tail runs is the call last logged.

\* the calls of that operation among cs
CallsOf(cs, ops) == {i \in DOMAIN cs : cs[i].op \in ops}

\* time.sleep(2)
SleepInterval == 2

\* the time a remote call may take
CallTimes == {0, 1}

\* the call the tail follows
TailOp == IF CallsOf(calls, {"update"}) # {} THEN "update" ELSE "create"

\* the status the tail's loop waits on
InProgress(op) ==
    IF op = "update" THEN "UPDATE_IN_PROGRESS" ELSE "CREATE_IN_PROGRESS"

\* the statuses the remote moves an operation in progress to
Outcomes(op) ==
    IF op = "update" THEN {"UPDATE_COMPLETE", "UPDATE_FAILED"}
    ELSE {"CREATE_COMPLETE", "CREATE_FAILED"}

\* arguments of a polled invocation
PollArgsIn ==
    [name : {"test"}, state : {"present"}, template : {"a: 1"},
     tags : {[isNone |-> FALSE, items |-> <<"t1", "t2">>]},
     wait : BOOLEAN, timeout : 0..MaxPollTimeout]

\* the state in which heat.stacks.create / heat.stacks.update has returned:
\* the remote holds the stack, its operation in progress
WaitInit ==
    /\ file \in Files
    /\ args \in PollArgsIn
    /\ \E op \in {"create", "update"} :
        /\ calls = <<Call("openstack_cloud", 0, FALSE), Call("list", 0, FALSE),
                     Call(op, 1, FALSE)>>
        /\ remote = <<[id |-> 1, stack_name |-> args.name,
                       stack_status |-> InProgress(op),
                       template |-> yaml_load(args.template)]>>
        /\ before = IF op = "create" THEN <<>> ELSE remote
        /\ found_stack = IF op = "create" THEN <<>> ELSE remote
    /\ pc = "get"
    /\ params = PopAll(InitialParams(file, args), PoppedKeys(file))
    /\ locals = Bind(Bind(<<>>, "heat", [v |-> NoneVal]), "_stack", [v |-> 1])
    /\ idx = 0
    /\ exc = NoExc
    /\ result = NoResult
    /\ history = <<>>
    /\ now = 0
    /\ other = <<>>

\* module.exit_json(changed=c, info=i)
ExitInfo(c, i) ==
    /\ pc' = "done"
    /\ result' = [failed |-> FALSE, changed |-> c, msg |-> "", info |-> i,
                  calls |-> calls, before |-> before]
    /\ history' = Append(history, result')

\* found_stack = heat.stacks.get(id); _stack_dict = found_stack.to_dict()
\* the call takes d, returns the stack as it is then, or raises
FetchStack(next) ==
    \E raised \in BOOLEAN, d \in CallTimes :
        /\ now' = now + d
        /\ calls' = Append(calls, Call("get", 1, raised))
        /\ pc' = AfterCall(raised, next)
        /\ exc' = IF raised THEN CallError("get") ELSE exc
        /\ found_stack' = IF raised THEN found_stack ELSE <<remote[1]>>
        /\ locals' = IF raised THEN locals
                     ELSE Bind(locals, "_stack_dict",
                               [v |-> remote[1].stack_status])

\* the first fetch after the call
GetStack ==
    /\ pc = "get"
    /\ FetchStack("if_wait")
    /\ UNCHANGED <<other, file, args, before, remote, params, idx, result, history>>

\* a wait condition that is always true
WaitAlways(p) == TRUE

\* if module.params['wait']
WaitRequested(p) == p["wait"].v

\* if module.params['wait']: expire = time.time() + module.params['timeout']
IfWait ==
    /\ pc = "if_wait"
    /\ IF WaitRequested(params)
       THEN /\ locals' = Bind(locals, "expire", [v |-> now + params["timeout"].v])
            /\ pc' = "while"
       ELSE /\ pc' = "exit"
            /\ locals' = locals
    /\ UNCHANGED <<other, now, file, args, before, remote, params, found_stack, idx, exc,
                   calls, result, history>>

\* a loop condition that still holds at the deadline
LoopThroughDeadline(t, expire) == t <= expire

\* while time.time() < expire
LoopContinues(t, expire) == t < expire

\* a test that goes on waiting until the operation has completed
NotComplete(status, op) == status \notin {"CREATE_COMPLETE", "UPDATE_COMPLETE"}

\* the test whose failure breaks the loop:
\* not (_stack_dict['stack_status'] != '<op>_IN_PROGRESS')
StillInProgress(status, op) == status = InProgress(op)

\* while time.time() < expire:
\*     if _stack_dict['stack_status'] != 'CREATE_IN_PROGRESS': break
WhileTest ==
    /\ pc = "while"
    /\ pc' = IF /\ LoopContinues(now, locals["expire"].v)
                /\ StillInProgress(locals["_stack_dict"].v, TailOp)
             THEN "sleep" ELSE "exit"
    /\ UNCHANGED <<other, now, file, args, before, remote, params, locals, found_stack,
                   idx, exc, calls, result, history>>

\* time.sleep(2)
Sleep ==
    /\ pc = "sleep"
    /\ now' = now + SleepInterval
    /\ calls' = Append(calls, Call("sleep", SleepInterval, FALSE))
    /\ pc' = "reget"
    /\ UNCHANGED <<other, file, args, before, remote, params, locals, found_stack, idx,
                   exc, result, history>>

\* the fetch inside the loop
ReGet ==
    /\ pc = "reget"
    /\ FetchStack("while")
    /\ UNCHANGED <<other, file, args, before, remote, params, idx, result, history>>

\* module.exit_json(changed=True, info=_stack_dict)
ExitChanged ==
    /\ pc = "exit"
    /\ ExitInfo(TRUE, locals["_stack_dict"].v)
    /\ UNCHANGED <<other, now, file, args, before, remote, params, locals, found_stack,
                   idx, exc, calls>>

\* the remote service ends the operation in progress
RemoteProgress ==
    /\ pc # "done"
    /\ remote[1].stack_status = InProgress(TailOp)
    /\ \E st \in Outcomes(TailOp) :
        remote' = [remote EXCEPT ![1].stack_status = st]
    /\ UNCHANGED <<other, now, file, args, before, pc, params, locals, found_stack, idx,
                   exc, calls, result, history>>

\* the steps of the invocation
WaitSteps ==
    \/ GetStack
    \/ IfWait
    \/ WhileTest
    \/ Sleep
    \/ ReGet
    \/ ExitChanged
    \/ ExceptHandler

WaitNext == WaitSteps \/ RemoteProgress

WaitSpec == WaitInit /\ [][WaitNext]_vars

\* the process runs on until it ends
FairWaitSpec == WaitSpec /\ WF_vars(WaitSteps)

\* ---------------------------------------------------------------- os_group
\* os_group.py main().  AnsibleModule and the SDK are taken by their
\* contract: module.params holds the task's name, description and state
\* (lines 74-76 pop them), get_group returns the group of that name or None,
\* create_group, update_group and delete_group act on the remote at once.
\* Only shade.OpenStackCloudException is caught (line 104).

GroupNames == {"demo"}
Descriptions == {NoneVal, "Demo Group", "Other text"}

GroupArgsIn == [name : GroupNames, description : Descriptions, state : States]

\* the remote's groups: at most one per name, and possibly a group of
\* another name
GroupListings ==
    {<<>>, <<[id |-> 7, name |-> "staff", description |-> "Staff"]>>}
    \cup {<<[id |-> 1, name |-> n, description |-> d]>> :
            n \in GroupNames, d \in Descriptions}
    \cup {<<[id |-> 7, name |-> "staff", description |-> "Staff"],
            [id |-> 1, name |-> n, description |-> d]>> :
            n \in GroupNames, d \in Descriptions}

GroupInit ==
    /\ file = "os_group"
    /\ args \in GroupArgsIn
    /\ remote \in GroupListings
    /\ before = remote
    /\ pc = "idle"
    /\ params = <<>>
    /\ locals = <<>>
    /\ found_stack = <<>>
    /\ idx = 0
    /\ exc = NoExc
    /\ calls = <<>>
    /\ result = NoResult
    /\ history = <<>>
    /\ now = 0
    /\ other = <<>>

\* cloud.get_group(name=name): <<>> for None, else <<group>>
GroupNamed(l, n) == SelectSeq(l, LAMBDA g : g.name = n)

\* module.exit_json(changed=c, group=g) or module.exit_json(changed=c)
GroupExit(c, g, cs) ==
    /\ pc' = "done"
    /\ result' = [failed |-> FALSE, changed |-> c, msg |-> "", group |-> g,
                  calls |-> cs, before |-> before]
    /\ history' = Append(history, result')

\* a new process runs main(); name, description and state are popped
GroupInvoke ==
    /\ pc \in {"idle", "done"}
    /\ Len(history) < MaxRuns
    /\ pc' = "g_cloud"
    /\ locals' = Bind(Bind(Bind(<<>>, "name", [v |-> args.name]),
                           "description", [v |-> args.description]),
                      "state", [v |-> args.state])
    /\ exc' = NoExc
    /\ calls' = <<>>
    /\ result' = NoResult
    /\ before' = remote
    /\ UNCHANGED <<other, now, file, args, remote, params, found_stack, idx, history>>

\* where control goes after a call of os_group that returned or raised
GroupAfterCall(raised, next) == IF raised THEN "g_except" ELSE next

\* cloud = shade.openstack_cloud(**module.params)
GroupOpenCloud ==
    /\ pc = "g_cloud"
    /\ \E raised \in BOOLEAN :
        /\ calls' = Append(calls, Call("openstack_cloud", 0, raised))
        /\ pc' = GroupAfterCall(raised, "g_get")
        /\ exc' = IF raised THEN CallError("openstack_cloud") ELSE exc
    /\ UNCHANGED <<other, now, file, args, before, remote, params, locals, found_stack,
                   idx, result, history>>

\* group = cloud.get_group(name=name)
GetGroup ==
    /\ pc = "g_get"
    /\ \E raised \in BOOLEAN :
        /\ calls' = Append(calls, Call("get_group", 0, raised))
        /\ pc' = GroupAfterCall(raised, "g_state")
        /\ exc' = IF raised THEN CallError("get_group") ELSE exc
        /\ locals' = IF raised THEN locals
                     ELSE Bind(locals, "group",
                               [v |-> GroupNamed(remote, locals["name"].v)])
    /\ UNCHANGED <<other, now, file, args, before, remote, params, found_stack, idx,
                   result, history>>

\* state == 'present', group is None:
\*   group = cloud.create_group(name=name, description=description)
\*   changed = True; module.exit_json(changed=changed, group=group)
CreateGroup ==
    /\ pc = "g_state"
    /\ locals["state"].v = "present"
    /\ locals["group"].v = <<>>
    /\ \E raised \in BOOLEAN :
        LET g == [id |-> 1, name |-> locals["name"].v,
                  description |-> locals["description"].v]
            cs == Append(calls, Call("create_group", g.id, raised))
        IN /\ calls' = cs
           /\ IF raised
              THEN /\ pc' = "g_except"
                   /\ exc' = CallError("create_group")
                   /\ UNCHANGED <<remote, locals, result, history>>
              ELSE /\ remote' = Append(remote, g)
                   /\ locals' = Bind(locals, "group", [v |-> <<g>>])
                   /\ exc' = exc
                   /\ GroupExit(TRUE, <<g>>, cs)
    /\ UNCHANGED <<other, now, file, args, before, params, found_stack, idx>>

\* a comparison that always finds a difference
DescriptionAlwaysDiffers(g, d) == TRUE

\* group.description != description
DescriptionDiffers(g, d) == g.description # d

\* the listing with the description of the group of that id replaced
WithDescription(l, id, d) ==
    [i \in DOMAIN l |-> IF l[i].id = id THEN [l[i] EXCEPT !.description = d]
                        ELSE l[i]]

\* state == 'present', group found, description differs:
\*   cloud.update_group(group.id, description=description)
\*   changed = True; module.exit_json(changed=changed, group=group)
\* group still is the object get_group returned
UpdateGroup ==
    /\ pc = "g_state"
    /\ locals["state"].v = "present"
    /\ locals["group"].v # <<>>
    /\ DescriptionDiffers(locals["group"].v[1], locals["description"].v)
    /\ \E raised \in BOOLEAN :
        LET g == locals["group"].v[1]
            cs == Append(calls, Call("update_group", g.id, raised))
        IN /\ calls' = cs
           /\ IF raised
              THEN /\ pc' = "g_except"
                   /\ exc' = CallError("update_group")
                   /\ UNCHANGED <<remote, result, history>>
              ELSE /\ remote' = WithDescription(remote, g.id,
                                                locals["description"].v)
                   /\ exc' = exc
                   /\ GroupExit(TRUE, locals["group"].v, cs)
    /\ UNCHANGED <<other, now, file, args, before, params, locals, found_stack, idx>>

\* state == 'present', group found, description equal:
\*   changed = False; module.exit_json(changed=changed, group=group)
KeepGroup ==
    /\ pc = "g_state"
    /\ locals["state"].v = "present"
    /\ locals["group"].v # <<>>
    /\ ~DescriptionDiffers(locals["group"].v[1], locals["description"].v)
    /\ GroupExit(FALSE, locals["group"].v, calls)
    /\ UNCHANGED <<other, now, file, args, before, remote, params, locals, found_stack,
                   idx, exc, calls>>

\* state == 'absent', group is None: changed=False
AbsentNoGroup ==
    /\ pc = "g_state"
    /\ locals["state"].v = "absent"
    /\ locals["group"].v = <<>>
    /\ GroupExit(FALSE, <<>>, calls)
    /\ UNCHANGED <<other, now, file, args, before, remote, params, locals, found_stack,
                   idx, exc, calls>>

\* state == 'absent', group found:
\*   cloud.delete_group(group.id); changed=True
DeleteGroup ==
    /\ pc = "g_state"
    /\ locals["state"].v = "absent"
    /\ locals["group"].v # <<>>
    /\ \E raised \in BOOLEAN :
        LET g == locals["group"].v[1]
            cs == Append(calls, Call("delete_group", g.id, raised))
        IN /\ calls' = cs
           /\ IF raised
              THEN /\ pc' = "g_except"
                   /\ exc' = CallError("delete_group")
                   /\ UNCHANGED <<remote, result, history>>
              ELSE /\ remote' = Without(remote, g.id)
                   /\ exc' = exc
                   /\ GroupExit(TRUE, <<>>, cs)
    /\ UNCHANGED <<other, now, file, args, before, params, locals, found_stack, idx>>

\* except shade.OpenStackCloudException as e:
\*     module.fail_json(msg=e.message, extra_data=e.extra_data)
GroupExcept ==
    /\ pc = "g_except"
    /\ pc' = "done"
    /\ result' = [failed |-> TRUE, changed |-> FALSE, msg |-> exc.message,
                  group |-> <<>>, calls |-> calls, before |-> before]
    /\ history' = Append(history, result')
    /\ UNCHANGED <<other, now, file, args, before, remote, params, locals, found_stack,
                   idx, exc, calls>>

GroupNext ==
    \/ GroupInvoke
    \/ GroupOpenCloud
    \/ GetGroup
    \/ CreateGroup
    \/ UpdateGroup
    \/ KeepGroup
    \/ AbsentNoGroup
    \/ DeleteGroup
    \/ GroupExcept

GroupSpec == GroupInit /\ [][GroupNext]_vars

\* ------------------------------------------------------ os_keystone_service
\* os_keystone_service.py main().  module.check_mode is an input of each
\* invocation; get_service returns the service of that name or None;
\* create_service and delete_service act on the remote at once.

ServiceNames == {"glance"}
ServiceTypes == {"image", "compute"}
ServiceDescriptions == {"Not provided", "Glance image service"}

ServiceArgsIn == [name : ServiceNames, service_type : ServiceTypes,
                  description : ServiceDescriptions, state : States]

\* the remote's services: none, or one of the desired name
ServiceListings ==
    {<<>>} \cup {<<[id |-> 1, name |-> n, type |-> t, description |-> d]>> :
                   n \in ServiceNames, t \in ServiceTypes,
                   d \in ServiceDescriptions}

ServiceInit ==
    /\ file = "os_keystone_service"
    /\ args \in ServiceArgsIn
    /\ remote \in ServiceListings
    /\ before = remote
    /\ pc = "idle"
    /\ params = <<>>
    /\ locals = <<>>
    /\ found_stack = <<>>
    /\ idx = 0
    /\ exc = NoExc
    /\ calls = <<>>
    /\ result = NoResult
    /\ history = <<>>
    /\ now = 0
    /\ other = <<>>

\* a comparison of the names only
compare_names(service_a, service_b) == service_a.name = service_b.name

\* compare_services(service_a, service_b)
compare_services(service_a, service_b) ==
    /\ service_a.name = service_b.name
    /\ service_a.type = service_b.service_type
    /\ service_a.description = service_b.description

\* cloud.get_service(name_or_id=service_name): <<>> for None, else <<service>>
ServiceNamed(l, n) == SelectSeq(l, LAMBDA sv : sv.name = n)

\* module.exit_json(changed=c, result=res, id=id, msg=m)
ServiceExit(c, res, id, m, cs) ==
    /\ pc' = "done"
    /\ result' = [failed |-> FALSE, changed |-> c, msg |-> m, result |-> res,
                  id |-> id, check_mode |-> locals["check_mode"].v,
                  calls |-> cs, before |-> before]
    /\ history' = Append(history, result')

\* a new process runs main(), in check mode or not (lines 98-103)
ServiceInvoke ==
    /\ pc \in {"idle", "done"}
    /\ Len(history) < MaxRuns
    /\ \E check \in BOOLEAN :
        locals' = Bind(Bind(Bind(Bind(Bind(<<>>,
                    "service_name", [v |-> args.name]),
                    "service_type", [v |-> args.service_type]),
                    "service_description", [v |-> args.description]),
                    "state", [v |-> args.state]),
                    "check_mode", [v |-> check])
    /\ pc' = "s_cloud"
    /\ exc' = NoExc
    /\ calls' = <<>>
    /\ result' = NoResult
    /\ before' = remote
    /\ UNCHANGED <<other, now, file, args, remote, params, found_stack, idx, history>>

\* where control goes after a call of os_keystone_service
ServiceAfterCall(raised, next) == IF raised THEN "s_except" ELSE next

\* cloud = shade.operator_cloud(**module.params)
ServiceOpenCloud ==
    /\ pc = "s_cloud"
    /\ \E raised \in BOOLEAN :
        /\ calls' = Append(calls, Call("operator_cloud", 0, raised))
        /\ pc' = ServiceAfterCall(raised, "s_get")
        /\ exc' = IF raised THEN CallError("operator_cloud") ELSE exc
    /\ UNCHANGED <<other, now, file, args, before, remote, params, locals, found_stack,
                   idx, result, history>>

\* service = cloud.get_service(name_or_id=service_name); new_service_kwargs
GetService ==
    /\ pc = "s_get"
    /\ \E raised \in BOOLEAN :
        /\ calls' = Append(calls, Call("get_service", 0, raised))
        /\ pc' = ServiceAfterCall(raised, "s_state")
        /\ exc' = IF raised THEN CallError("get_service") ELSE exc
        /\ locals' =
             IF raised THEN locals
             ELSE Bind(Bind(locals, "service",
                            [v |-> ServiceNamed(remote, locals["service_name"].v)]),
                       "new_service_kwargs",
                       [v |-> [name |-> locals["service_name"].v,
                               service_type |-> locals["service_type"].v,
                               description |-> locals["service_description"].v]])
    /\ UNCHANGED <<other, now, file, args, before, remote, params, found_stack, idx,
                   result, history>>

\* state == "present", service is None, check mode: exit_json(changed=True)
CheckCreateService ==
    /\ pc = "s_state"
    /\ locals["state"].v = "present"
    /\ locals["service"].v = <<>>
    /\ locals["check_mode"].v
    /\ ServiceExit(TRUE, NoneVal, 0, "", calls)
    /\ UNCHANGED <<other, now, file, args, before, remote, params, locals, found_stack,
                   idx, exc, calls>>

\* state == "present", service is None:
\*   new_service = cloud.create_service(**new_service_kwargs)
\*   exit_json(changed=True, result='created', id=new_service['id'])
CreateService ==
    /\ pc = "s_state"
    /\ locals["state"].v = "present"
    /\ locals["service"].v = <<>>
    /\ ~locals["check_mode"].v
    /\ \E raised \in BOOLEAN :
        LET kw == locals["new_service_kwargs"].v
            sv == [id |-> 1, name |-> kw.name, type |-> kw.service_type,
                   description |-> kw.description]
            cs == Append(calls, Call("create_service", sv.id, raised))
        IN /\ calls' = cs
           /\ IF raised
              THEN /\ pc' = "s_except"
                   /\ exc' = CallError("create_service")
                   /\ UNCHANGED <<remote, result, history>>
              ELSE /\ remote' = Append(remote, sv)
                   /\ exc' = exc
                   /\ ServiceExit(TRUE, "created", sv.id, "", cs)
    /\ UNCHANGED <<other, now, file, args, before, params, locals, found_stack, idx>>

\* state == "present", compare_services(service, new_service_kwargs):
\*   exit_json(changed=False, result='success', id=service['id'])
ServiceSuccess ==
    /\ pc = "s_state"
    /\ locals["state"].v = "present"
    /\ locals["service"].v # <<>>
    /\ compare_services(locals["service"].v[1], locals["new_service_kwargs"].v)
    /\ ServiceExit(FALSE, "success", locals["service"].v[1].id, "", calls)
    /\ UNCHANGED <<other, now, file, args, before, remote, params, locals, found_stack,
                   idx, exc, calls>>

\* state == "present", the service exists and differs:
\*   exit_json(changed=False, result='exists',
\*             msg='Keystone services cannot be updated', id=service['id'])
ServiceExists ==
    /\ pc = "s_state"
    /\ locals["state"].v = "present"
    /\ locals["service"].v # <<>>
    /\ ~compare_services(locals["service"].v[1], locals["new_service_kwargs"].v)
    /\ ServiceExit(FALSE, "exists", locals["service"].v[1].id,
                   "Keystone services cannot be updated", calls)
    /\ UNCHANGED <<other, now, file, args, before, remote, params, locals, found_stack,
                   idx, exc, calls>>

\* a check-mode report that is always changed
CheckAbsentAlways(service) == TRUE

\* changed=service is not None
CheckAbsentChanged(service) == service # <<>>

\* state == "absent", check mode: exit_json(changed=service is not None)
CheckDeleteService ==
    /\ pc = "s_state"
    /\ locals["state"].v = "absent"
    /\ locals["check_mode"].v
    /\ ServiceExit(CheckAbsentChanged(locals["service"].v), NoneVal, 0, "", calls)
    /\ UNCHANGED <<other, now, file, args, before, remote, params, locals, found_stack,
                   idx, exc, calls>>

\* state == "absent", service is not None:
\*   cloud.delete_service(name_or_id=service_name)
\*   exit_json(changed=True, result='deleted')
DeleteService ==
    /\ pc = "s_state"
    /\ locals["state"].v = "absent"
    /\ ~locals["check_mode"].v
    /\ locals["service"].v # <<>>
    /\ \E raised \in BOOLEAN :
        LET cs == Append(calls, Call("delete_service",
                                     locals["service"].v[1].id, raised))
        IN /\ calls' = cs
           /\ IF raised
              THEN /\ pc' = "s_except"
                   /\ exc' = CallError("delete_service")
                   /\ UNCHANGED <<remote, result, history>>
              ELSE /\ remote' = SelectSeq(remote,
                          LAMBDA sv : sv.name # locals["service_name"].v)
                   /\ exc' = exc
                   /\ ServiceExit(TRUE, "deleted", 0, "", cs)
    /\ UNCHANGED <<other, now, file, args, before, params, locals, found_stack, idx>>

\* state == "absent", service is None: exit_json(changed=False, result='success')
ServiceAbsent ==
    /\ pc = "s_state"
    /\ locals["state"].v = "absent"
    /\ ~locals["check_mode"].v
    /\ locals["service"].v = <<>>
    /\ ServiceExit(FALSE, "success", 0, "", calls)
    /\ UNCHANGED <<other, now, file, args, before, remote, params, locals, found_stack,
                   idx, exc, calls>>

\* a handler that fails in either mode
NeverReportsChanged(check) == FALSE

\* if check_mode: exit_json(changed=True, ...) else: fail_json(...)
ReportsChanged(check) == check

\* except shade.OpenStackCloudException as e:
\*     if check_mode: module.exit_json(changed=True, msg="exception: %s" % e)
\*     else: module.fail_json(msg="exception: %s" % e)
ServiceExcept ==
    /\ pc = "s_except"
    /\ pc' = "done"
    /\ result' = [failed |-> ~ReportsChanged(locals["check_mode"].v),
                  changed |-> ReportsChanged(locals["check_mode"].v),
                  msg |-> "exception: " \o exc.message,
                  result |-> NoneVal, id |-> 0,
                  check_mode |-> locals["check_mode"].v,
                  calls |-> calls, before |-> before]
    /\ history' = Append(history, result')
    /\ UNCHANGED <<other, now, file, args, before, remote, params, locals, found_stack,
                   idx, exc, calls>>

ServiceNext ==
    \/ ServiceInvoke
    \/ ServiceOpenCloud
    \/ GetService
    \/ CheckCreateService
    \/ CreateService
    \/ ServiceSuccess
    \/ ServiceExists
    \/ CheckDeleteService
    \/ DeleteService
    \/ ServiceAbsent
    \/ ServiceExcept

ServiceSpec == ServiceInit /\ [][ServiceNext]_vars

\* ------------------------------------------------------------- properties

\* positions of the listing whose name equals n when both are lowercased
Matching(l, n) == {i \in DOMAIN l : Lower(l[i].stack_name) = Lower(n)}

\* no call of the invocation raised
NoRemoteError(r) == \A i \in DOMAIN r.calls : ~r.calls[i].raised

Mutating == {"create", "update", "delete"}

\* an invocation has ended and its result is in `result`
Finished == pc = "done"

\* the task gives a tags list (the default, None, ends os_stack at line 142)
TagsGiven == ~args.tags.isNone

\* C1: when the reconcile is invoked twice in succession with the same
\* arguments and state=present and no remote call fails, the second
\* invocation returns changed=false and issues no create, update or delete.
C1_IdempotentPresent ==
    (/\ Len(history) = 2
     /\ TagsGiven
     /\ args.state = "present"
     /\ NoRemoteError(history[1])
     /\ NoRemoteError(history[2]))
    => /\ ~history[2].failed
       /\ ~history[2].changed
       /\ CallsOf(history[2].calls, Mutating) = {}

\* C2: reconcile(spec, absent) twice in succession, on a remote that holds a
\* stack of that name, yields changed=true on the first call and
\* changed=false on the second.
C2_AbsentTwice ==
    (/\ Len(history) = 2
     /\ TagsGiven
     /\ args.state = "absent"
     /\ Matching(history[1].before, args.name) # {}
     /\ NoRemoteError(history[1])
     /\ NoRemoteError(history[2]))
    => /\ ~history[1].failed /\ history[1].changed
       /\ ~history[2].failed /\ ~history[2].changed

\* C3: state=present, wait=true, no matching stack, and a remote that
\* completes the create within the timeout (any timeout suffices for a
\* remote that completes at once): the invocation returns changed=true and
\* a snapshot whose status is CREATE_COMPLETE.
C3_CreateThenWait ==
    (/\ Finished
     /\ TagsGiven
     /\ args.state = "present" /\ args.wait
     /\ Matching(before, args.name) = {}
     /\ NoRemoteError(result))
    => /\ ~result.failed
       /\ result.changed
       /\ result.info = "CREATE_COMPLETE"

\* C4: state=present, wait=true, no matching stack, and a timeout too short
\* for the create to complete (timeout 0): the invocation ends with a normal
\* result, changed=true and status CREATE_IN_PROGRESS, never a fatal error.
C4_CreateTimeoutNoError ==
    (/\ Finished
     /\ TagsGiven
     /\ args.state = "present" /\ args.wait /\ args.timeout = 0
     /\ Matching(before, args.name) = {}
     /\ NoRemoteError(result))
    => /\ ~result.failed
       /\ result.changed
       /\ result.info = "CREATE_IN_PROGRESS"

\* C5: a listed stack whose lowercased name equals the lowercased desired
\* name is a match: a present reconcile issues no create, an absent
\* reconcile deletes that stack.
C5_CaseInsensitiveMatch ==
    (/\ Finished
     /\ TagsGiven
     /\ Matching(before, args.name) # {}
     /\ NoRemoteError(result))
    => /\ ~result.failed
       /\ args.state = "present" => CallsOf(result.calls, {"create"}) = {}
       /\ args.state = "absent" =>
            \E i \in DOMAIN result.calls :
                /\ result.calls[i].op = "delete"
                /\ result.calls[i].id \in
                     {before[j].id : j \in Matching(before, args.name)}

\* C6: state=absent and a matching stack: exactly one delete, of the matched
\* stack, is issued; it is the last remote call; no create or update is
\* issued; the result is changed=true.
C6_AbsentDeletes ==
    (/\ Finished
     /\ TagsGiven
     /\ args.state = "absent"
     /\ Matching(before, args.name) # {}
     /\ NoRemoteError(result))
    => /\ ~result.failed /\ result.changed
       /\ Cardinality(CallsOf(result.calls, {"delete"})) = 1
       /\ CallsOf(result.calls, {"create", "update"}) = {}
       /\ result.calls # <<>>
       /\ result.calls[Len(result.calls)].op = "delete"
       /\ \E j \in Matching(before, args.name) :
            /\ \A k \in Matching(before, args.name) : j <= k
            /\ result.calls[Len(result.calls)].id = before[j].id

\* C7: state=absent and no stack matching the name: the result is
\* changed=false, no create, update or delete is issued and the remote's
\* stacks are as before.
C7_AbsentNoMatch ==
    (/\ Finished
     /\ TagsGiven
     /\ args.state = "absent"
     /\ Matching(before, args.name) = {}
     /\ NoRemoteError(result))
    => /\ ~result.failed /\ ~result.changed
       /\ CallsOf(result.calls, Mutating) = {}
       /\ remote = before

\* the first stack of the listing that matches the name
FirstMatch(l, n) ==
    l[CHOOSE j \in Matching(l, n) : \A k \in Matching(l, n) : j <= k]

\* C8: state=present and a matching stack: when the applied template differs
\* from the desired one exactly one update is issued and the result is
\* changed=true; when they are equal no update is issued and the result is
\* changed=false.
C8_PresentMatchUpdates ==
    (/\ Finished
     /\ TagsGiven
     /\ args.state = "present"
     /\ Matching(before, args.name) # {}
     /\ NoRemoteError(result))
    => /\ ~result.failed
       /\ IF FirstMatch(before, args.name).template # yaml_load(args.template)
          THEN /\ result.changed
               /\ Cardinality(CallsOf(result.calls, {"update"})) = 1
          ELSE /\ ~result.changed
               /\ CallsOf(result.calls, {"update"}) = {}

\* C9: state=present and a matching stack whose applied template is the
\* desired template up to whitespace: the result is changed=false and no
\* update is issued.
C9_SkipEqualTemplate ==
    (/\ Finished
     /\ TagsGiven
     /\ args.state = "present"
     /\ args.template = "a:  1"
     /\ Matching(before, args.name) # {}
     /\ FirstMatch(before, args.name).template = yaml_load("a: 1")
     /\ NoRemoteError(result))
    => /\ ~result.failed /\ ~result.changed
       /\ CallsOf(result.calls, {"update"}) = {}

\* C10: a remote call that raises is the last call of the invocation, the
\* invocation goes to the except clause and ends with a fatal error whose
\* message carries the message of the error raised.
C10_FailStop ==
    \A i \in DOMAIN calls :
        calls[i].raised =>
            /\ i = Len(calls)
            /\ pc \in {"except", "done"}
            /\ pc = "done" =>
                 /\ result.failed
                 /\ ~result.changed
                 /\ result.msg = "Heat error: " \o calls[i].op \o " failed"
                 /\ result.calls = calls

\* the listing raised and the invocation ended with the fatal error
C10_Witness ==
    /\ pc = "done"
    /\ calls # <<>>
    /\ calls[Len(calls)].op = "list"
    /\ calls[Len(calls)].raised
    /\ result.failed

\* C11: an invocation looks the name up in a fresh listing before it issues
\* a create, update or delete, and when several listed stacks match the name
\* the first in listing order is the one acted on: with state=absent and two
\* matching stacks, the first is deleted, after the listing call.
C11_FreshLookupFirstMatch ==
    (/\ Finished
     /\ TagsGiven
     /\ args.state = "absent"
     /\ Cardinality(Matching(before, args.name)) >= 2
     /\ NoRemoteError(result))
    => \E i \in DOMAIN result.calls :
         /\ result.calls[i].op = "delete"
         /\ result.calls[i].id = FirstMatch(before, args.name).id
         /\ \E j \in 1..(i - 1) : result.calls[j].op = "list"

\* C13: state=present and a matching stack whose applied template equals the
\* desired template: the result is changed=false and no update is issued,
\* although the desired tags (t1, t2) are not those of the remote stack.
C13_TemplateOnlyDiff ==
    (/\ Finished
     /\ TagsGiven
     /\ args.state = "present"
     /\ args.template = "a: 1"
     /\ Matching(before, args.name) # {}
     /\ FirstMatch(before, args.name).template = yaml_load(args.template)
     /\ NoRemoteError(result))
    => /\ ~result.failed
       /\ ~result.changed
       /\ CallsOf(result.calls, Mutating) = {}

\* the status fetches and the sleeps of the invocation
Fetches == CallsOf(calls, {"get"})
Sleeps == CallsOf(calls, {"sleep"})

\* the last snapshot is in _stack_dict
HasSnapshot == "_stack_dict" \in DOMAIN locals

\* one sleep of 2 time units lies between consecutive fetches; an iteration
\* is under way only before the deadline; the fetches after the first are at
\* most ceil(timeout / 2)
PollingBounded ==
    /\ \A i \in DOMAIN calls :
         /\ calls[i].op = "sleep" =>
              /\ calls[i].id = 2
              /\ i > 1 /\ calls[i - 1].op = "get"
              /\ i < Len(calls) => calls[i + 1].op = "get"
         /\ (calls[i].op = "get" /\ i > 1) => calls[i - 1].op # "get"
    /\ pc = "sleep" => now < locals["expire"].v
    /\ Cardinality(Sleeps) <= (args.timeout + 1) \div 2
    /\ Cardinality(Fetches) <= 1 + (args.timeout + 1) \div 2

\* C12: when a fetch of the create (update) wait shows CREATE_FAILED
\* (UPDATE_FAILED), the loop stops at its next test: no sleep or fetch
\* follows, and the invocation ends with a normal result, changed=true and
\* the failed status in the snapshot, never with a fatal error.
C12_FailedIsNormal ==
    (HasSnapshot /\ locals["_stack_dict"].v \in {"CREATE_FAILED", "UPDATE_FAILED"})
    => /\ pc \in {"if_wait", "while", "exit", "done"}
       /\ pc = "done" =>
            /\ ~result.failed
            /\ result.changed
            /\ result.info = locals["_stack_dict"].v
            /\ calls[Len(calls)].op = "get"

\* a create wait that slept, then saw CREATE_FAILED and returned
C12_Witness ==
    /\ pc = "done"
    /\ ~result.failed
    /\ result.info = "CREATE_FAILED"
    /\ Sleeps # {}

\* C14: the wait loop sleeps exactly 2 time units between consecutive status
\* fetches, starts no iteration once the clock has reached start + timeout,
\* fetches again at most ceil(timeout / 2) times, and the invocation
\* eventually returns, whatever the remote status does.
C14_PollingTerminates ==
    /\ []PollingBounded
    /\ [][(pc = "sleep" /\ pc' # "sleep") => now' = now + 2]_vars
    /\ <>(pc = "done")

\* the stack stayed in progress, the loop slept ceil(timeout / 2) times with
\* the largest timeout, and the invocation returned
C14_Witness ==
    /\ pc = "done"
    /\ args.wait
    /\ args.timeout = MaxPollTimeout
    /\ Cardinality(Sleeps) = (args.timeout + 1) \div 2
    /\ result.info \in {"CREATE_IN_PROGRESS", "UPDATE_IN_PROGRESS"}

\* C15: with wait=false the create or update is followed by exactly one
\* status fetch and no sleep, and the invocation returns changed=true with
\* that snapshot, whatever its status and whatever the timeout.
C15_NoWaitSingleFetch ==
    ~args.wait =>
        /\ Sleeps = {}
        /\ Cardinality(Fetches) <= 1
        /\ (pc = "done" /\ NoRemoteError(result)) =>
             /\ ~result.failed
             /\ result.changed
             /\ Cardinality(Fetches) = 1
             /\ result.info = found_stack[1].stack_status

\* wait=false, a timeout that would allow polling, and the invocation
\* returned the snapshot of a stack still in progress
C15_Witness ==
    /\ pc = "done"
    /\ ~args.wait
    /\ args.timeout > 0
    /\ result.changed
    /\ result.info = "CREATE_IN_PROGRESS"
    /\ remote[1].stack_status = "CREATE_COMPLETE"

\* the mutating calls of os_group among cs
GroupCalls(cs, ops) == Cardinality(CallsOf(cs, ops))

\* what an invocation of os_group that met no error did, given the group of
\* the desired name it found
GroupOutcome(r) ==
    LET g == GroupNamed(r.before, args.name)
        creates == GroupCalls(r.calls, {"create_group"})
        updates == GroupCalls(r.calls, {"update_group"})
        deletes == GroupCalls(r.calls, {"delete_group"})
    IN  /\ ~r.failed
        /\ IF args.state = "present"
           THEN IF g = <<>>
                THEN r.changed /\ creates = 1 /\ updates = 0 /\ deletes = 0
                ELSE IF g[1].description # args.description
                THEN r.changed /\ creates = 0 /\ updates = 1 /\ deletes = 0
                ELSE ~r.changed /\ creates = 0 /\ updates = 0 /\ deletes = 0
           ELSE IF g = <<>>
                THEN ~r.changed /\ creates = 0 /\ updates = 0 /\ deletes = 0
                ELSE r.changed /\ creates = 0 /\ updates = 0 /\ deletes = 1

C20_ResultGroupCurrent ==
    (/\ pc = "done"
     /\ args.state = "present"
     /\ ~result.failed)
    => /\ result.group # <<>>
       /\ result.group[1].description = args.description
       /\ result.group = GroupNamed(remote, args.name)

ServiceMutating == {"create_service", "delete_service"}

\* the service of the desired name differs from the desired one
ServiceDiffers(l) ==
    /\ ServiceNamed(l, args.name) # <<>>
    /\ \/ ServiceNamed(l, args.name)[1].type # args.service_type
       \/ ServiceNamed(l, args.name)[1].description # args.description

\* C17: os_keystone_service with state=present and an existing service of
\* that name whose type or description differs issues no create or delete
\* and reports changed=false, result='exists' and the existing id; the
\* remote service keeps its id and attributes however many invocations run.
C17_ServiceNeverModified ==
    /\ \A k \in DOMAIN history :
         (/\ args.state = "present"
          /\ ServiceDiffers(history[k].before)
          /\ NoRemoteError(history[k]))
         => /\ ~history[k].failed
            /\ ~history[k].changed
            /\ history[k].result = "exists"
            /\ history[k].id = ServiceNamed(history[k].before, args.name)[1].id
            /\ CallsOf(history[k].calls, ServiceMutating) = {}
    /\ (args.state = "present" /\ ServiceDiffers(before))
         => /\ remote = before
            /\ \A k \in DOMAIN history : history[k].before = remote

\* two invocations in a row met the differing service and left it alone
C17_Witness ==
    /\ Len(history) = 2
    /\ ServiceDiffers(remote)
    /\ history[1].result = "exists"
    /\ history[2].result = "exists"

\* C18: in check mode os_keystone_service issues no create_service or
\* delete_service and leaves the remote alone, and when no call fails the
\* changed it reports is the changed a normal run reports from the same
\* remote state and arguments.
C18_CheckModeFaithful ==
    /\ ("check_mode" \in DOMAIN locals /\ locals["check_mode"].v)
         => /\ CallsOf(calls, ServiceMutating) = {}
            /\ remote = before
    /\ \A j, k \in DOMAIN history :
         (/\ history[j].check_mode
          /\ ~history[k].check_mode
          /\ history[j].before = history[k].before
          /\ NoRemoteError(history[j])
          /\ NoRemoteError(history[k]))
         => history[j].changed = history[k].changed

\* a check-mode run and then a normal run, from the same remote state, both
\* reported changed=true, and the normal run issued the call
C18_Witness ==
    /\ Len(history) = 2
    /\ history[1].check_mode /\ ~history[2].check_mode
    /\ history[1].before = history[2].before
    /\ NoRemoteError(history[1]) /\ NoRemoteError(history[2])
    /\ history[1].changed /\ history[2].changed
    /\ CallsOf(history[2].calls, ServiceMutating) # {}

\* C19: an OpenStackCloudException raised by a remote call ends a normal run
\* with a fatal error carrying the exception text, and ends a check-mode run
\* with a normal result reporting changed=true.
C19_ErrorByMode ==
    \A k \in DOMAIN history :
        LET r == history[k] IN
        ~NoRemoteError(r) =>
            /\ r.msg = "exception: " \o r.calls[Len(r.calls)].op \o " failed"
            /\ IF r.check_mode THEN ~r.failed /\ r.changed
               ELSE r.failed

\* a call raised in a check-mode run and in a normal run
C19_Witness ==
    /\ Len(history) = 2
    /\ history[1].check_mode /\ ~NoRemoteError(history[1])
    /\ ~history[1].failed /\ history[1].changed
    /\ ~history[2].check_mode /\ ~NoRemoteError(history[2])
    /\ history[2].failed

\* no two stacks of the listing have names equal when lowercased
AtMostOnePerName(l) ==
    \A i, j \in DOMAIN l :
        Lower(l[i].stack_name) = Lower(l[j].stack_name) => i = j

\* the number of create, update and delete calls in a call log
MutatingCalls(cs) == Cardinality(CallsOf(cs, Mutating))

C22_NoDuplicateWhenInterleaved ==
    (/\ other # <<>>
     /\ Cardinality(Matching(before, args.name)) <= 1
     /\ Cardinality(Matching(other[1].before, args.name)) <= 1)
    => Cardinality(Matching(remote, args.name)) <= 1

\* both processes have fetched a listing without the name and both stand
\* before the create call
C22_Witness ==
    /\ other # <<>>
    /\ pc = "create"
    /\ other[1].pc = "create"
    /\ CallsOf(calls, {"list"}) # {}
    /\ CallsOf(other[1].calls, {"list"}) # {}
    /\ Matching(remote, args.name) = {}

====
